---- MODULE Spec2Model ----
(***************************************************************************)
(* Model of inst.js: the record store (inst.json), the undo stack          *)
(* (undoInst.json) and the redo stack (redoInst.json), and the command     *)
(* handlers add, edit, mark, delete, recover, reset, undo and redo that    *)
(* read and rewrite them.  One action is one invocation of the tool, run   *)
(* from start to finish.                                                   *)
(***************************************************************************)
EXTENDS Integers, Sequences, FiniteSets, TLC

\* ------------------------------------------------------------------------
\* Program constants
\* ------------------------------------------------------------------------
MAX_UNDO_REDO_STATES == 10

\* JavaScript null / an absent timestamp.  Timestamps are instants >= 1.
NULL == 0

\* An option that was not given on the command line (undefined, falsy).
NoArg == ""

\* ------------------------------------------------------------------------
\* Bounds of the exploration
\* ------------------------------------------------------------------------
MaxSteps == 4
MaxRecords == 2
MaxStepsDeep == 12
MaxRecordsDeep == 1
MaxFilterRecords == 2
MaxStepsCorrupt == 3
MaxStepsHalt == 3
MaxRun == 2

\* Inputs of the wide exploration
Ids == 1 .. (MaxRecords + 1)
AddArgs ==
  { [source |-> "work", instruction |-> "buy milk", priority |-> "normal", deadline |-> NoArg],
    [source |-> "home", instruction |-> "call bob", priority |-> "high",   deadline |-> "tomorrow"],
    [source |-> "work", instruction |-> "buy milk", priority |-> "normal", deadline |-> "gibberish"] }
EditArgs ==
  { [source |-> NoArg, instruction |-> NoArg, priority |-> NoArg, status |-> NoArg, deadline |-> NoArg],
    [source |-> NoArg, instruction |-> NoArg, priority |-> "normal", status |-> NoArg, deadline |-> NoArg],
    [source |-> "home", instruction |-> "call bob", priority |-> NoArg, status |-> "paused", deadline |-> "tomorrow"],
    [source |-> "home", instruction |-> NoArg, priority |-> NoArg, status |-> NoArg, deadline |-> "gibberish"] }
MarkStatuses == {"pending", "completed"}
Answers == {"y", "n"}

\* Inputs of the deep exploration
DeepAddArgs ==
  { [source |-> "work", instruction |-> "buy milk", priority |-> "normal", deadline |-> NoArg] }
DeepEditArgs ==
  { [source |-> NoArg, instruction |-> NoArg, priority |-> "low", status |-> NoArg, deadline |-> NoArg] }
DeepIds == {1}

\* ------------------------------------------------------------------------
\* State
\* ------------------------------------------------------------------------
VARIABLES
  store,      \* contents of inst.json: the sequence of records
  undoStack,  \* contents of undoInst.json, oldest first
  redoStack,  \* contents of redoInst.json, oldest first
  clock,      \* the instant new Date() returns during the next command
  last,       \* what the most recent command did
  prev,       \* what the command before it did
  prev2,      \* what the command before that one did
  pre,        \* the three files as they were before the most recent command
  pre2,       \* the three files as they were before the command `prev`
  pre3,       \* the three files as they were before the command `prev2`
  assigned,   \* the ids handed out by add, in order
  used,       \* names of the commands run so far
  run,        \* entries of the successful mutating commands run in a row
  query,      \* the options of the most recent command when it was a query
  shown,      \* the records the most recent query selected
  lifo        \* the successful mutating commands since the last undo, and how
              \* many of them the undos run since have taken back

vars == <<store, undoStack, redoStack, clock, last, prev, prev2, pre, pre2, pre3,
          assigned, used, run, query, shown, lifo>>

Files == [store |-> store, undo |-> undoStack, redo |-> redoStack]

NoCommand == [name |-> "none", outcome |-> "none", prompted |-> FALSE,
              id |-> 0, retId |-> 0, retCmd |-> "", steps |-> << >>]

MutatingCommands == {"add", "edit", "mark", "delete", "recover", "reset"}

\* ------------------------------------------------------------------------
\* Helpers
\* ------------------------------------------------------------------------
RECURSIVE MaxOf(_)
MaxOf(S) ==
  IF S = {} THEN 0
  ELSE LET x == CHOOSE y \in S : TRUE
           m == MaxOf(S \ {x})
       IN IF x > m THEN x ELSE m

IdsOf(instructions) == { instructions[i].id : i \in 1 .. Len(instructions) }

\* newId of the add handler: Math.max over every record, deleted or not
NewIdLiveOnly(instructions) ==
  LET live == { instructions[i].id : i \in { j \in 1 .. Len(instructions) : ~instructions[j].isDeleted } }
  IN IF live # {} THEN MaxOf(live) + 1 ELSE 1

NewId(instructions) ==
  IF Len(instructions) > 0 THEN MaxOf(IdsOf(instructions)) + 1 ELSE 1

\* Array.prototype.findIndex, 1-based; 0 stands for JavaScript's -1
FirstOf(hits) ==
  IF hits = {} THEN 0 ELSE CHOOSE i \in hits : \A j \in hits : i <= j

\* findIndex((inst) => inst.id === argv.id) of edit, mark and recover
FindIndex(instructions, id) ==
  FirstOf({ i \in 1 .. Len(instructions) : instructions[i].id = id })

\* findIndex((inst) => inst.id === argv.id && !inst.isDeleted) of delete
FindActiveIndexAnyState(instructions, id) ==
  FirstOf({ i \in 1 .. Len(instructions) : instructions[i].id = id })

FindActiveIndex(instructions, id) ==
  FirstOf({ i \in 1 .. Len(instructions) :
              instructions[i].id = id /\ ~instructions[i].isDeleted })

\* chrono.parseDate: a Date for a phrase it understands, null otherwise
ParseDate(phrase, now) ==
  IF phrase = "tomorrow" THEN now + 1 ELSE NULL

\* ensureDataFilesExist writes "[]" into each missing file
EmptyFile == << >>

\* The text of inst.json when JSON.parse refuses it
Garbage == << [garbage |-> TRUE] >>

\* loadInstructions: the parsed file, or [] when it cannot be parsed
LoadInstructionsPlaceholder(file) ==
  IF file = Garbage
  THEN << [id |-> 1, source |-> "work", text |-> "buy milk", added |-> 1,
           priority |-> "normal", deadline |-> NULL, status |-> "pending",
           isDeleted |-> FALSE, deletedAt |-> NULL] >>
  ELSE file

LoadInstructions(file) ==
  IF file = Garbage THEN << >> ELSE file

\* pushToUndoStack: append {command, data: the store on disk}, drop the
\* oldest entry when the stack grew beyond the capacity
PushToUndoStackNoShift(stack, commandName, currentData) ==
  Append(stack, [command |-> commandName, data |-> currentData])

PushToUndoStackDropNewest(stack, commandName, currentData) ==
  LET s == Append(stack, [command |-> commandName, data |-> currentData])
  IN IF Len(s) > MAX_UNDO_REDO_STATES THEN SubSeq(s, 1, Len(s) - 1) ELSE s

PushToUndoStack(stack, commandName, currentData) ==
  LET s == Append(stack, [command |-> commandName, data |-> currentData])
  IN IF Len(s) > MAX_UNDO_REDO_STATES THEN Tail(s) ELSE s

\* pushToRedoStack: the same on the redo file
PushToRedoStack(stack, commandName, currentData) ==
  LET s == Append(stack, [command |-> commandName, data |-> currentData])
  IN IF Len(s) > MAX_UNDO_REDO_STATES THEN Tail(s) ELSE s

\* clearRedoStack
ClearRedoStackSkipped == redoStack

ClearRedoStack == << >>

\* popFromUndoStack on the three files; the caller has seen a non-empty stack
PopFromUndoStackSaveFirst(f) ==
  IF Len(f.undo) > 0
  THEN LET prevState == f.undo[Len(f.undo)]
       IN [store |-> prevState.data,
           undo  |-> SubSeq(f.undo, 1, Len(f.undo) - 1),
           redo  |-> PushToRedoStack(f.redo, prevState.command, prevState.data),
           ret   |-> prevState.command]
  ELSE [store |-> f.store, undo |-> f.undo, redo |-> f.redo, ret |-> ""]

PopFromUndoStackOldest(f) ==
  IF Len(f.undo) > 0
  THEN LET prevState == f.undo[1]
       IN [store |-> prevState.data,
           undo  |-> Tail(f.undo),
           redo  |-> PushToRedoStack(f.redo, prevState.command, LoadInstructions(f.store)),
           ret   |-> prevState.command]
  ELSE [store |-> f.store, undo |-> f.undo, redo |-> f.redo, ret |-> ""]

PopFromUndoStack(f) ==
  IF Len(f.undo) > 0
  THEN LET prevState == f.undo[Len(f.undo)]
       IN [store |-> prevState.data,
           undo  |-> SubSeq(f.undo, 1, Len(f.undo) - 1),
           redo  |-> PushToRedoStack(f.redo, prevState.command, LoadInstructions(f.store)),
           ret   |-> prevState.command]
  ELSE [store |-> f.store, undo |-> f.undo, redo |-> f.redo, ret |-> ""]

\* popFromRedoStack, symmetric
PopFromRedoStackKeepTop(f) ==
  IF Len(f.redo) > 0
  THEN LET nextState == f.redo[Len(f.redo)]
       IN [store |-> nextState.data,
           undo  |-> PushToUndoStack(f.undo, nextState.command, LoadInstructions(f.store)),
           redo  |-> f.redo,
           ret   |-> nextState.command]
  ELSE [store |-> f.store, undo |-> f.undo, redo |-> f.redo, ret |-> ""]

PopFromRedoStack(f) ==
  IF Len(f.redo) > 0
  THEN LET nextState == f.redo[Len(f.redo)]
       IN [store |-> nextState.data,
           undo  |-> PushToUndoStack(f.undo, nextState.command, LoadInstructions(f.store)),
           redo  |-> SubSeq(f.redo, 1, Len(f.redo) - 1),
           ret   |-> nextState.command]
  ELSE [store |-> f.store, undo |-> f.undo, redo |-> f.redo, ret |-> ""]

\* ------------------------------------------------------------------------
\* Options of the queries (show, total, export)
\* ------------------------------------------------------------------------
\* A numeric option that was not given (undefined)
Undefined == -1

\* Text that the program takes apart (--date, --month) is a sequence of
\* characters; the empty sequence stands for an option that was not given.
NoText == << >>

\* JavaScript truthiness of a numeric option, of a string and of a text
TruthyNum(n) == n # Undefined /\ n # 0
TruthyStr(x) == x # NoArg
TruthyText(t) == t # NoText

NoQuery ==
  [priority |-> NoArg, source |-> NoArg, status |-> NoArg, deadline |-> FALSE,
   all |-> FALSE, date |-> NoText, day |-> NoArg, month |-> NoText,
   year |-> Undefined, week |-> Undefined]

\* ------------------------------------------------------------------------
\* Dates.  An instant is a whole day, counted from 2025-01-01 = 1; the time of
\* day is left out and the local time zone is taken to be UTC.
\* ------------------------------------------------------------------------
IsLeapYear(y) == (y % 4 = 0 /\ y % 100 # 0) \/ y % 400 = 0

DaysInMonth(y, m) ==
  IF m = 2 THEN (IF IsLeapYear(y) THEN 29 ELSE 28)
  ELSE IF m \in {4, 6, 9, 11} THEN 30 ELSE 31

RECURSIVE DaysBeforeYear(_)
DaysBeforeYear(y) ==
  IF y <= 2025 THEN 0
  ELSE DaysBeforeYear(y - 1) + (IF IsLeapYear(y - 1) THEN 366 ELSE 365)

RECURSIVE DaysBeforeMonth(_, _)
DaysBeforeMonth(y, m) ==
  IF m <= 1 THEN 0 ELSE DaysBeforeMonth(y, m - 1) + DaysInMonth(y, m - 1)

\* The instant of year-month-day; a day past the end of the month runs on
\* into the next month, as the Date constructor does
MakeDay(y, m, d) == DaysBeforeYear(y) + DaysBeforeMonth(y, m) + d

RECURSIVE CivilFrom(_, _, _)
CivilFrom(y, m, n) ==
  IF n <= DaysInMonth(y, m)
  THEN [year |-> y, month |-> m, date |-> n]
  ELSE CivilFrom(IF m = 12 THEN y + 1 ELSE y, IF m = 12 THEN 1 ELSE m + 1,
                 n - DaysInMonth(y, m))

\* getFullYear(), getMonth() + 1 and getDate() of new Date(dateString)
DateFields(t) == CivilFrom(2025, 1, t)

\* getDayName: the weekday in en-US; 2025-01-01 was a Wednesday
DayNames ==
  <<"Sunday", "Monday", "Tuesday", "Wednesday", "Thursday", "Friday", "Saturday">>
GetDayName(t) == DayNames[((t + 2) % 7) + 1]

\* getWeekOfMonth: Math.ceil(date.getDate() / 7)
GetWeekOfMonthFloor(t) == (DateFields(t).date \div 7) + 1

GetWeekOfMonth(t) == (DateFields(t).date + 6) \div 7

\* ------------------------------------------------------------------------
\* Text
\* ------------------------------------------------------------------------
\* String.prototype.toLowerCase on the whole strings that occur as sources
\* and weekday names
ToLowerCase(x) ==
  CASE x = "Work" -> "work" [] x = "WORK" -> "work"
    [] x = "Home" -> "home" [] x = "HOME" -> "home"
    [] x = "Sunday" -> "sunday" [] x = "Monday" -> "monday"
    [] x = "Tuesday" -> "tuesday" [] x = "Wednesday" -> "wednesday"
    [] x = "Thursday" -> "thursday" [] x = "Friday" -> "friday"
    [] x = "FRIDAY" -> "friday" [] x = "Saturday" -> "saturday"
    [] OTHER -> x

UpperLetters == <<"A", "B", "C", "D", "E", "F", "G", "H", "I", "J", "K", "L", "M", "N", "O", "P", "Q", "R", "S", "T", "U", "V", "W", "X", "Y", "Z">>
LowerLetters == <<"a", "b", "c", "d", "e", "f", "g", "h", "i", "j", "k", "l", "m", "n", "o", "p", "q", "r", "s", "t", "u", "v", "w", "x", "y", "z">>
Digits == <<"0", "1", "2", "3", "4", "5", "6", "7", "8", "9">>

IsDigit(c) == \E i \in 1 .. 10 : Digits[i] = c
DigitValue(c) == (CHOOSE i \in 1 .. 10 : Digits[i] = c) - 1

LowerChar(c) ==
  IF \E i \in 1 .. 26 : UpperLetters[i] = c
  THEN LowerLetters[CHOOSE i \in 1 .. 26 : UpperLetters[i] = c]
  ELSE c

\* toLowerCase on a text
LowerText(t) == [i \in 1 .. Len(t) |-> LowerChar(t[i])]

\* trim on a text
RECURSIVE TrimStart(_)
TrimStart(t) == IF t # << >> /\ Head(t) = " " THEN TrimStart(Tail(t)) ELSE t
RECURSIVE TrimEnd(_)
TrimEnd(t) ==
  IF t # << >> /\ t[Len(t)] = " " THEN TrimEnd(SubSeq(t, 1, Len(t) - 1)) ELSE t
Trim(t) == TrimEnd(TrimStart(t))

\* The longest prefix of digits, and the number a text of digits denotes
RECURSIVE DigitPrefix(_)
DigitPrefix(t) ==
  IF t # << >> /\ IsDigit(Head(t)) THEN <<Head(t)>> \o DigitPrefix(Tail(t)) ELSE << >>
RECURSIVE NumberOf(_)
NumberOf(t) ==
  IF t = << >> THEN 0 ELSE 10 * NumberOf(SubSeq(t, 1, Len(t) - 1)) + DigitValue(t[Len(t)])

\* parseInt(text, 10): leading blanks, an optional sign, then the digits up
\* to the first other character; NaN when there is no digit
ParseInt(t) ==
  LET u == TrimStart(t)
      signed == u # << >> /\ Head(u) \in {"+", "-"}
      body == IF signed THEN Tail(u) ELSE u
      ds == DigitPrefix(body)
  IN IF ds = << >> THEN [nan |-> TRUE, value |-> 0]
     ELSE [nan |-> FALSE,
           value |-> IF signed /\ Head(u) = "-" THEN 0 - NumberOf(ds) ELSE NumberOf(ds)]

\* /^\d{4}-\d{2}-\d{2}$/.test(text)
TestDatePattern(t) ==
  /\ Len(t) = 10
  /\ \A i \in {1, 2, 3, 4, 6, 7, 9, 10} : IsDigit(t[i])
  /\ t[5] = "-"
  /\ t[8] = "-"

\* new Date(text).getTime() for a text of the form YYYY-MM-DD: NaN (NULL
\* here) unless the month is 1..12 and the day 1..31; the engine of Node
\* does not compare the day with the length of the month
ParseIsoDate(t) ==
  LET y == NumberOf(SubSeq(t, 1, 4))
      m == NumberOf(SubSeq(t, 6, 7))
      d == NumberOf(SubSeq(t, 9, 10))
  IN IF m \in 1 .. 12 /\ d \in 1 .. 31 THEN MakeDay(y, m, d) ELSE NULL

\* monthMap of parseMonth
MonthNames ==
  <<
    <<"j", "a", "n", "u", "a", "r", "y">>,
    <<"f", "e", "b", "r", "u", "a", "r", "y">>,
    <<"m", "a", "r", "c", "h">>,
    <<"a", "p", "r", "i", "l">>,
    <<"m", "a", "y">>,
    <<"j", "u", "n", "e">>,
    <<"j", "u", "l", "y">>,
    <<"a", "u", "g", "u", "s", "t">>,
    <<"s", "e", "p", "t", "e", "m", "b", "e", "r">>,
    <<"o", "c", "t", "o", "b", "e", "r">>,
    <<"n", "o", "v", "e", "m", "b", "e", "r">>,
    <<"d", "e", "c", "e", "m", "b", "e", "r">> >>
MonthAbbreviations ==
  <<
    <<"j", "a", "n">>,
    <<"f", "e", "b">>,
    <<"m", "a", "r">>,
    <<"a", "p", "r">>,
    <<"m", "a", "y">>,
    <<"j", "u", "n">>,
    <<"j", "u", "l">>,
    <<"a", "u", "g">>,
    <<"s", "e", "p">>,
    <<"o", "c", "t">>,
    <<"n", "o", "v">>,
    <<"d", "e", "c">> >>

\* A value that monthMap[monthStr] finds on Object.prototype instead of in
\* the table: truthy and equal to no month number
InheritedValue == -2

\* parseMonth: null is NULL
ParseMonth(monthInput) ==
  IF ~TruthyText(monthInput) THEN NULL
  ELSE LET monthNumber == ParseInt(monthInput)
           monthStr == Trim(LowerText(monthInput))
       IN IF ~monthNumber.nan /\ monthNumber.value >= 1 /\ monthNumber.value <= 12
          THEN monthNumber.value
          ELSE IF \E k \in 1 .. 12 : MonthNames[k] = monthStr
          THEN CHOOSE k \in 1 .. 12 : MonthNames[k] = monthStr
          ELSE IF \E k \in 1 .. 12 : MonthAbbreviations[k] = monthStr
          THEN CHOOSE k \in 1 .. 12 : MonthAbbreviations[k] = monthStr
          ELSE IF monthStr \in { <<"c", "o", "n", "s", "t", "r", "u", "c", "t", "o", "r">>, <<"_", "_", "p", "r", "o", "t", "o", "_", "_">> }
          THEN InheritedValue
          ELSE NULL

\* ------------------------------------------------------------------------
\* Filter logic
\* ------------------------------------------------------------------------
\* weekCoercion throws unless the week, when given, is within 1..5
WeekCoercionThrows(week) == week # Undefined /\ (week < 1 \/ week > 5)

\* monthCoercion: undefined stays undefined, null from parseMonth throws
MonthCoercionThrows(monthInput) ==
  monthInput # NoText /\ ParseMonth(monthInput) = NULL

MonthCoercion(monthInput) ==
  IF monthInput = NoText THEN Undefined ELSE ParseMonth(monthInput)

\* argv after yargs applied the two coercions
Coerced(argv) == [argv EXCEPT !.month = MonthCoercion(argv.month)]

\* validateFilterOptions: "ok" stands for true, the other values for the
\* three messages
ValidateFilterOptionsNoWeekRule(options) ==
  IF TruthyText(options.date) /\ ~TestDatePattern(options.date)
  THEN "InvalidDate"
  ELSE IF TruthyText(options.date) /\ ParseIsoDate(options.date) = NULL
  THEN "InvalidDate"
  ELSE IF /\ TruthyText(options.date)
          /\ \/ TruthyStr(options.day) \/ TruthyNum(options.month)
             \/ TruthyNum(options.week) \/ TruthyNum(options.year)
  THEN "DateWithOtherTimeFilters"
  ELSE "ok"

ValidateFilterOptions(options) ==
  IF TruthyText(options.date) /\ ~TestDatePattern(options.date)
  THEN "InvalidDate"
  ELSE IF TruthyText(options.date) /\ ParseIsoDate(options.date) = NULL
  THEN "InvalidDate"
  ELSE IF /\ TruthyText(options.date)
          /\ \/ TruthyStr(options.day) \/ TruthyNum(options.month)
             \/ TruthyNum(options.week) \/ TruthyNum(options.year)
  THEN "DateWithOtherTimeFilters"
  ELSE IF TruthyNum(options.week) /\ ~TruthyNum(options.month)
  THEN "WeekWithoutMonth"
  ELSE "ok"

\* filterInstructions, lines 471-475
ByPriority(data, filters) ==
  IF TruthyStr(filters.priority)
  THEN SelectSeq(data, LAMBDA inst : inst.priority = filters.priority)
  ELSE data

\* lines 476-480
BySource(data, filters) ==
  IF TruthyStr(filters.source)
  THEN SelectSeq(data, LAMBDA inst :
         ToLowerCase(inst.source) = ToLowerCase(filters.source))
  ELSE data

\* lines 481-485
ByStatus(data, filters) ==
  IF TruthyStr(filters.status)
  THEN SelectSeq(data, LAMBDA inst : inst.status = filters.status)
  ELSE data

\* lines 486-488
ByDeadline(data, filters) ==
  IF filters.deadline
  THEN SelectSeq(data, LAMBDA inst : inst.deadline # NULL)
  ELSE data

\* lines 489-491
ByDeletedIgnoringAll(data, filters) ==
  SelectSeq(data, LAMBDA inst : ~inst.isDeleted)

ByDeletedNever(data, filters) == data

ByDeleted(data, filters) ==
  IF ~filters.all
  THEN SelectSeq(data, LAMBDA inst : ~inst.isDeleted)
  ELSE data

\* lines 493-498
HasDateFilter(filters) ==
  \/ TruthyText(filters.date)
  \/ TruthyStr(filters.day)
  \/ TruthyNum(filters.month)
  \/ TruthyNum(filters.year)
  \/ TruthyNum(filters.week)

\* checkDate, lines 501-519
CheckDate(dateString, filters) ==
  IF dateString = NULL THEN FALSE
  ELSE
    LET dateMatch ==
          \/ ~TruthyText(filters.date)
          \/ dateString = ParseIsoDate(filters.date)
        dayMatch ==
          \/ ~TruthyStr(filters.day)
          \/ ToLowerCase(GetDayName(dateString)) = ToLowerCase(filters.day)
        monthMatch ==
          \/ ~TruthyNum(filters.month)
          \/ DateFields(dateString).month = filters.month
        yearMatch ==
          \/ ~TruthyNum(filters.year)
          \/ DateFields(dateString).year = filters.year
        weekMatch ==
          \/ ~TruthyNum(filters.week)
          \/ GetWeekOfMonth(dateString) = filters.week
    IN dateMatch /\ dayMatch /\ monthMatch /\ yearMatch /\ weekMatch

\* lines 499-522
ByDateConcatenated(data, filters) ==
  IF HasDateFilter(filters)
  THEN SelectSeq(data, LAMBDA inst : CheckDate(inst.added, filters))
       \o SelectSeq(data, LAMBDA inst : CheckDate(inst.deadline, filters))
  ELSE data

ByDatePerCriterion(data, filters) ==
  LET only(c) ==
        [filters EXCEPT
           !.date  = IF c = "date" THEN @ ELSE NoText,
           !.day   = IF c = "day" THEN @ ELSE NoArg,
           !.month = IF c = "month" THEN @ ELSE Undefined,
           !.year  = IF c = "year" THEN @ ELSE Undefined,
           !.week  = IF c = "week" THEN @ ELSE Undefined]
  IN IF HasDateFilter(filters)
     THEN SelectSeq(data, LAMBDA inst :
            \A c \in {"date", "day", "month", "year", "week"} :
              \/ ~HasDateFilter(only(c))
              \/ CheckDate(inst.added, only(c))
              \/ CheckDate(inst.deadline, only(c)))
     ELSE data

ByDate(data, filters) ==
  IF HasDateFilter(filters)
  THEN SelectSeq(data, LAMBDA inst :
         CheckDate(inst.added, filters) \/ CheckDate(inst.deadline, filters))
  ELSE data

FilterInstructions(instructions, filters) ==
  ByDate(ByDeleted(ByDeadline(ByStatus(BySource(ByPriority(instructions, filters),
    filters), filters), filters), filters), filters)

\* ------------------------------------------------------------------------
\* The order of the steps of a command
\* ------------------------------------------------------------------------
\* What a handler awaits, in the order of its text, once its lookups have
\* passed: the prompt where there is one, then the writes of the files.
StepsOfSaveFirst(name, outcome) ==
  IF name \in {"add", "edit", "mark", "recover"} /\ outcome = "Applied"
  THEN <<"saveInstructions", "pushToUndoStack", "clearRedoStack">>
  ELSE IF name = "add" /\ outcome = "InvalidDeadline"
  THEN <<"pushToUndoStack", "clearRedoStack">>
  ELSE IF name \in {"delete", "reset"} /\ outcome = "Applied"
  THEN <<"promptConfirmation", "saveInstructions", "pushToUndoStack", "clearRedoStack">>
  ELSE IF name = "undo" /\ outcome = "Applied"
  THEN <<"promptConfirmation", "pushToRedoStack", "saveInstructions", "writeStack">>
  ELSE IF name = "redo" /\ outcome = "Applied"
  THEN <<"promptConfirmation", "pushToUndoStack", "saveInstructions", "writeStack">>
  ELSE IF outcome = "Cancelled"
  THEN <<"promptConfirmation">>
  ELSE << >>

StepsOfPromptLate(name, outcome) ==
  IF name \in {"add", "edit", "mark", "recover"} /\ outcome = "Applied"
  THEN <<"pushToUndoStack", "clearRedoStack", "saveInstructions">>
  ELSE IF name = "add" /\ outcome = "InvalidDeadline"
  THEN <<"pushToUndoStack", "clearRedoStack">>
  ELSE IF name \in {"delete", "reset"} /\ outcome = "Applied"
  THEN <<"pushToUndoStack", "promptConfirmation", "clearRedoStack", "saveInstructions">>
  ELSE IF name = "undo" /\ outcome = "Applied"
  THEN <<"pushToRedoStack", "promptConfirmation", "saveInstructions", "writeStack">>
  ELSE IF name = "redo" /\ outcome = "Applied"
  THEN <<"pushToUndoStack", "promptConfirmation", "saveInstructions", "writeStack">>
  ELSE IF outcome = "Cancelled"
  THEN <<"promptConfirmation">>
  ELSE << >>

StepsOf(name, outcome) ==
  IF name \in {"add", "edit", "mark", "recover"} /\ outcome = "Applied"
  THEN <<"pushToUndoStack", "clearRedoStack", "saveInstructions">>
  ELSE IF name = "add" /\ outcome = "InvalidDeadline"
  THEN <<"pushToUndoStack", "clearRedoStack">>
  ELSE IF name \in {"delete", "reset"} /\ outcome = "Applied"
  THEN <<"promptConfirmation", "pushToUndoStack", "clearRedoStack", "saveInstructions">>
  ELSE IF name = "undo" /\ outcome = "Applied"
  THEN <<"promptConfirmation", "pushToRedoStack", "saveInstructions", "writeStack">>
  ELSE IF name = "redo" /\ outcome = "Applied"
  THEN <<"promptConfirmation", "pushToUndoStack", "saveInstructions", "writeStack">>
  ELSE IF outcome = "Cancelled"
  THEN <<"promptConfirmation">>
  ELSE << >>

\* The file a step writes; the prompt writes none
FileOf(name, step) ==
  CASE step = "pushToUndoStack" -> "undo"
    [] step = "clearRedoStack" -> "redo"
    [] step = "pushToRedoStack" -> "redo"
    [] step = "saveInstructions" -> "store"
    [] step = "writeStack" -> (IF name = "undo" THEN "undo" ELSE "redo")
    [] OTHER -> "none"

\* ------------------------------------------------------------------------
\* Bookkeeping shared by every command (not program state)
\* ------------------------------------------------------------------------
Applied(l) == l.name \in MutatingCommands /\ l.outcome = "Applied"

\* The record of the run of successful mutating commands: `trail` holds, for
\* each command since the last undo, its name and the store before and after
\* it (the latest MaxRun of them); `back` is the number of
\* them taken back by the undos that followed, one after the other, and not
\* yet redone.  A command that is none of these leaves the run as it is
\* while no undo has followed it, and ends it afterwards.
NoRun == [trail |-> << >>, back |-> 0, phase |-> "run"]

Trailed(l, after) ==
  LET entry == [command |-> l.name, before |-> LoadInstructions(store), after |-> after]
      t == Append(IF lifo.phase = "run" THEN lifo.trail ELSE << >>, entry)
  IN IF Applied(l)
     THEN [trail |-> IF Len(t) > MaxRun THEN Tail(t) ELSE t,
           back |-> 0, phase |-> "run"]
     ELSE IF l.name = "undo" /\ l.outcome = "Applied"
     THEN IF lifo.phase \in {"run", "undoing"} /\ lifo.back < Len(lifo.trail)
          THEN [lifo EXCEPT !.back = @ + 1, !.phase = "undoing"]
          ELSE [trail |-> << >>, back |-> 0, phase |-> "over"]
     ELSE IF l.name = "redo" /\ l.outcome = "Applied"
     THEN IF lifo.phase \in {"undoing", "redoing"} /\ lifo.back >= 1
          THEN [lifo EXCEPT !.back = @ - 1, !.phase = "redoing"]
          ELSE [trail |-> << >>, back |-> 0, phase |-> "over"]
     ELSE IF lifo.phase = "run" THEN lifo
     ELSE [trail |-> << >>, back |-> 0, phase |-> "over"]

NoteQuery(l, argv, selected) ==
  /\ last' = l
  /\ lifo' = Trailed(l, store')
  /\ query' = argv
  /\ shown' = selected
  /\ prev' = last
  /\ prev2' = prev
  /\ pre' = Files
  /\ pre2' = pre
  /\ pre3' = pre2
  /\ used' = used \cup {l.name}
  /\ clock' = clock + 1
  /\ assigned' = IF l.name = "add" /\ l.outcome = "Applied"
                 THEN Append(assigned, l.retId) ELSE assigned
  /\ run' = IF Applied(l)
            THEN Append(run, [command |-> l.name, data |-> LoadInstructions(store)])
            ELSE << >>

Note(l) == NoteQuery(l, NoQuery, << >>)

Result(name, outcome, prompted, id, retId, retCmd) ==
  [name |-> name, outcome |-> outcome, prompted |-> prompted,
   id |-> id, retId |-> retId, retCmd |-> retCmd, steps |-> StepsOf(name, outcome)]

Init ==
  /\ store = EmptyFile
  /\ undoStack = EmptyFile
  /\ redoStack = EmptyFile
  /\ clock = 1
  /\ last = NoCommand
  /\ prev = NoCommand
  /\ prev2 = NoCommand
  /\ pre = [store |-> << >>, undo |-> << >>, redo |-> << >>]
  /\ pre2 = [store |-> << >>, undo |-> << >>, redo |-> << >>]
  /\ pre3 = [store |-> << >>, undo |-> << >>, redo |-> << >>]
  /\ assigned = << >>
  /\ used = {}
  /\ run = << >>
  /\ query = NoQuery
  /\ shown = << >>
  /\ lifo = NoRun

\* ------------------------------------------------------------------------
\* Command handlers
\* ------------------------------------------------------------------------

\* add: the undo push and the redo clear come first, the deadline check after
Add(argv) ==
  LET newId == NewId(LoadInstructions(store))
      deadlineDate == IF argv.deadline # NoArg THEN ParseDate(argv.deadline, clock) ELSE NULL
  IN /\ undoStack' = PushToUndoStack(undoStack, "add", LoadInstructions(store))
     /\ redoStack' = ClearRedoStack
     /\ IF argv.deadline # NoArg /\ deadlineDate = NULL
        THEN /\ store' = store
             /\ Note(Result("add", "InvalidDeadline", FALSE, 0, 0, ""))
        ELSE /\ store' = Append(LoadInstructions(store),
                   [id |-> newId, source |-> argv.source, text |-> argv.instruction,
                    added |-> clock, priority |-> argv.priority,
                    deadline |-> deadlineDate, status |-> "pending",
                    isDeleted |-> FALSE, deletedAt |-> NULL])
             /\ Note(Result("add", "Applied", FALSE, newId, newId, ""))


\* The record at position idx replaced by r
ReplaceAtEnd(instructions, idx, r) ==
  Append(SelectSeq(instructions, LAMBDA inst : inst # instructions[idx]), r)

Replace(instructions, idx, r) ==
  [instructions EXCEPT ![idx] = r]

\* edit, lines 1552-1578: the given fields are assigned in the loaded copy
EditedRecord(inst, argv, deadlineDate) ==
  [inst EXCEPT
     !.source   = IF argv.source # NoArg THEN argv.source ELSE @,
     !.text     = IF argv.instruction # NoArg THEN argv.instruction ELSE @,
     !.priority = IF argv.priority # NoArg THEN argv.priority ELSE @,
     !.status   = IF argv.status # NoArg THEN argv.status ELSE @,
     !.deadline = IF argv.deadline # NoArg THEN deadlineDate ELSE @]

\* edit, the `changed` flag: set by every option that was given
Changed(argv) ==
  \/ argv.source # NoArg
  \/ argv.instruction # NoArg
  \/ argv.priority # NoArg
  \/ argv.status # NoArg
  \/ argv.deadline # NoArg

Edit(id, argv) ==
  LET instIndex == FindIndex(LoadInstructions(store), id)
      deadlineDate == IF argv.deadline # NoArg THEN ParseDate(argv.deadline, clock) ELSE NULL
  IN IF instIndex = 0
     THEN /\ UNCHANGED <<store, undoStack, redoStack>>
          /\ Note(Result("edit", "NotFound", FALSE, id, 0, ""))
     ELSE IF LoadInstructions(store)[instIndex].isDeleted
     THEN /\ UNCHANGED <<store, undoStack, redoStack>>
          /\ Note(Result("edit", "Deleted", FALSE, id, 0, ""))
     ELSE IF argv.deadline # NoArg /\ deadlineDate = NULL
     THEN /\ UNCHANGED <<store, undoStack, redoStack>>
          /\ Note(Result("edit", "InvalidDeadline", FALSE, id, 0, ""))
     ELSE IF Changed(argv)
     THEN /\ undoStack' = PushToUndoStack(undoStack, "edit", LoadInstructions(store))
          /\ redoStack' = ClearRedoStack
          /\ store' = Replace(LoadInstructions(store), instIndex,
                              EditedRecord(LoadInstructions(store)[instIndex], argv, deadlineDate))
          /\ Note(Result("edit", "Applied", FALSE, id, 0, ""))
     ELSE /\ UNCHANGED <<store, undoStack, redoStack>>
          /\ Note(Result("edit", "NoChanges", FALSE, id, 0, ""))

MarkNoDeletedCheck(id, status) ==
  LET instIndex == FindIndex(LoadInstructions(store), id)
  IN IF instIndex = 0
     THEN /\ UNCHANGED <<store, undoStack, redoStack>>
          /\ Note(Result("mark", "NotFound", FALSE, id, 0, ""))
     ELSE IF LoadInstructions(store)[instIndex].status = status
     THEN /\ UNCHANGED <<store, undoStack, redoStack>>
          /\ Note(Result("mark", "NoOp", FALSE, id, 0, ""))
     ELSE /\ undoStack' = PushToUndoStack(undoStack, "mark", LoadInstructions(store))
          /\ redoStack' = ClearRedoStack
          /\ store' = Replace(LoadInstructions(store), instIndex, [LoadInstructions(store)[instIndex] EXCEPT !.status = status])
          /\ Note(Result("mark", "Applied", FALSE, id, 0, ""))

Mark(id, status) ==
  LET instIndex == FindIndex(LoadInstructions(store), id)
  IN IF instIndex = 0
     THEN /\ UNCHANGED <<store, undoStack, redoStack>>
          /\ Note(Result("mark", "NotFound", FALSE, id, 0, ""))
     ELSE IF LoadInstructions(store)[instIndex].isDeleted
     THEN /\ UNCHANGED <<store, undoStack, redoStack>>
          /\ Note(Result("mark", "Deleted", FALSE, id, 0, ""))
     ELSE IF LoadInstructions(store)[instIndex].status = status
     THEN /\ UNCHANGED <<store, undoStack, redoStack>>
          /\ Note(Result("mark", "NoOp", FALSE, id, 0, ""))
     ELSE /\ undoStack' = PushToUndoStack(undoStack, "mark", LoadInstructions(store))
          /\ redoStack' = ClearRedoStack
          /\ store' = Replace(LoadInstructions(store), instIndex, [LoadInstructions(store)[instIndex] EXCEPT !.status = status])
          /\ Note(Result("mark", "Applied", FALSE, id, 0, ""))

\* promptConfirmation resolves true only for the answer "y"
Confirmed(answer) == answer = "y"

\* delete, lines 1717-1718
SoftDeletedNoStamp(inst, now) == [inst EXCEPT !.isDeleted = TRUE]

SoftDeleted(inst, now) == [inst EXCEPT !.isDeleted = TRUE, !.deletedAt = now]

\* recover, lines 1765-1766
Recovered(inst) == [inst EXCEPT !.isDeleted = FALSE, !.deletedAt = NULL]

Delete(id, answer) ==
  LET instIndex == FindActiveIndex(LoadInstructions(store), id)
  IN IF instIndex = 0
     THEN /\ UNCHANGED <<store, undoStack, redoStack>>
          /\ Note(Result("delete", "NotFoundOrDeleted", FALSE, id, 0, ""))
     ELSE IF Confirmed(answer)
     THEN /\ undoStack' = PushToUndoStack(undoStack, "delete", LoadInstructions(store))
          /\ redoStack' = ClearRedoStack
          /\ store' = Replace(LoadInstructions(store), instIndex, SoftDeleted(LoadInstructions(store)[instIndex], clock))
          /\ Note(Result("delete", "Applied", TRUE, id, 0, ""))
     ELSE /\ UNCHANGED <<store, undoStack, redoStack>>
          /\ Note(Result("delete", "Cancelled", TRUE, id, 0, ""))

Recover(id) ==
  LET instIndex == FindIndex(LoadInstructions(store), id)
  IN IF instIndex = 0 \/ ~LoadInstructions(store)[instIndex].isDeleted
     THEN /\ UNCHANGED <<store, undoStack, redoStack>>
          /\ Note(Result("recover", "NotFoundOrNotDeleted", FALSE, id, 0, ""))
     ELSE /\ undoStack' = PushToUndoStack(undoStack, "recover", LoadInstructions(store))
          /\ redoStack' = ClearRedoStack
          /\ store' = Replace(LoadInstructions(store), instIndex, Recovered(LoadInstructions(store)[instIndex]))
          /\ Note(Result("recover", "Applied", FALSE, id, 0, ""))

Reset(answer) ==
  IF Confirmed(answer)
  THEN /\ undoStack' = PushToUndoStack(undoStack, "reset", LoadInstructions(store))
       /\ redoStack' = ClearRedoStack
       /\ store' = << >>
       /\ Note(Result("reset", "Applied", TRUE, 0, 0, ""))
  ELSE /\ UNCHANGED <<store, undoStack, redoStack>>
       /\ Note(Result("reset", "Cancelled", TRUE, 0, 0, ""))

Undo(answer) ==
  IF Len(undoStack) = 0
  THEN /\ UNCHANGED <<store, undoStack, redoStack>>
       /\ Note(Result("undo", "Empty", FALSE, 0, 0, ""))
  ELSE IF Confirmed(answer)
  THEN LET r == PopFromUndoStack(Files)
       IN /\ store' = r.store
          /\ undoStack' = r.undo
          /\ redoStack' = r.redo
          /\ Note(Result("undo", "Applied", TRUE, 0, 0, r.ret))
  ELSE /\ UNCHANGED <<store, undoStack, redoStack>>
       /\ Note(Result("undo", "Cancelled", TRUE, 0, 0, ""))

RedoNoEmptyCheck(answer) ==
  IF Confirmed(answer)
  THEN LET r == PopFromRedoStack(Files)
       IN /\ store' = r.store
          /\ undoStack' = r.undo
          /\ redoStack' = r.redo
          /\ Note(Result("redo", IF r.ret = "" THEN "Empty" ELSE "Applied", TRUE, 0, 0, r.ret))
  ELSE /\ UNCHANGED <<store, undoStack, redoStack>>
       /\ Note(Result("redo", "Cancelled", TRUE, 0, 0, ""))

Redo(answer) ==
  IF Len(redoStack) = 0
  THEN /\ UNCHANGED <<store, undoStack, redoStack>>
       /\ Note(Result("redo", "Empty", FALSE, 0, 0, ""))
  ELSE IF Confirmed(answer)
  THEN LET r == PopFromRedoStack(Files)
       IN /\ store' = r.store
          /\ undoStack' = r.undo
          /\ redoStack' = r.redo
          /\ Note(Result("redo", "Applied", TRUE, 0, 0, r.ret))
  ELSE /\ UNCHANGED <<store, undoStack, redoStack>>
       /\ Note(Result("redo", "Cancelled", TRUE, 0, 0, ""))

\* The process ends while the most recent command is at its step k + 1 (at
\* the prompt, or between two writes).  Every write of a handler replaces a
\* whole file by a content computed from the files as they were when the
\* command began, so what is on disk then is the new content of the files
\* written by the first k steps and the old content of the others.
Halt(k) ==
  LET done == SubSeq(last.steps, 1, k)
      written == { FileOf(last.name, done[i]) : i \in 1 .. k }
  IN /\ last.name # "none"
     /\ last.outcome # "Stopped"
     /\ k < Len(last.steps)
     /\ store' = IF "store" \in written THEN store ELSE pre.store
     /\ undoStack' = IF "undo" \in written THEN undoStack ELSE pre.undo
     /\ redoStack' = IF "redo" \in written THEN redoStack ELSE pre.redo
     /\ last' = [last EXCEPT !.outcome = "Stopped", !.steps = done,
                             !.prompted = \E i \in 1 .. k : done[i] = "promptConfirmation"]
     /\ assigned' = IF last.name = "add" /\ last.outcome = "Applied" /\ "store" \notin written
                    THEN SubSeq(assigned, 1, Len(assigned) - 1) ELSE assigned
     /\ run' = << >>
     /\ lifo' = [trail |-> << >>, back |-> 0, phase |-> "over"]
     /\ UNCHANGED <<clock, prev, prev2, pre, pre2, pre3, used, query, shown>>

\* show (and total, export): yargs coerces --week and --month and runs
\* validateFilterOptions; only then the handler loads the store and filters.
\* `shown` is what filterInstructions returned.
Show(argv) ==
  LET options == Coerced(argv)
      invalid ==
        IF WeekCoercionThrows(argv.week) THEN "InvalidWeek"
        ELSE IF MonthCoercionThrows(argv.month) THEN "InvalidMonth"
        ELSE ValidateFilterOptions(options)
      filtered == FilterInstructions(LoadInstructions(store), options)
  IN /\ UNCHANGED <<store, undoStack, redoStack>>
     /\ IF invalid # "ok"
        THEN NoteQuery(Result("show", invalid, FALSE, 0, 0, ""), argv, << >>)
        ELSE IF Len(filtered) = 0
        THEN NoteQuery(Result("show", "NoMatches", FALSE, 0, 0, ""), argv, filtered)
        ELSE NoteQuery(Result("show", "Shown", FALSE, 0, 0, ""), argv, filtered)

\* ------------------------------------------------------------------------
\* Specifications
\* ------------------------------------------------------------------------
CmdAdd     == clock <= MaxSteps /\ Len(store) < MaxRecords /\ \E a \in AddArgs : Add(a)
CmdEdit    == clock <= MaxSteps /\ \E id \in Ids, a \in EditArgs : Edit(id, a)
CmdMark    == clock <= MaxSteps /\ \E id \in Ids, s \in MarkStatuses : Mark(id, s)
CmdDelete  == clock <= MaxSteps /\ \E id \in Ids, ans \in Answers : Delete(id, ans)
CmdRecover == clock <= MaxSteps /\ \E id \in Ids : Recover(id)
CmdReset   == clock <= MaxSteps /\ \E ans \in Answers : Reset(ans)
CmdUndo    == clock <= MaxSteps /\ \E ans \in Answers : Undo(ans)
CmdRedo    == clock <= MaxSteps /\ \E ans \in Answers : Redo(ans)

Next ==
  \/ CmdAdd
  \/ CmdEdit
  \/ CmdMark
  \/ CmdDelete
  \/ CmdRecover
  \/ CmdReset
  \/ CmdUndo
  \/ CmdRedo

Spec == Init /\ [][Next]_vars

\* The deep exploration: few records, the first one edited and marked, long
\* command sequences, so that the stacks reach and pass their capacity.
\* the records are added by the first commands of a sequence
DeepAdd     ==
  /\ clock <= MaxStepsDeep
  /\ clock <= MaxRecordsDeep
  /\ Len(store) < MaxRecordsDeep
  /\ \E a \in DeepAddArgs : Add(a)
DeepEdit    == clock <= MaxStepsDeep /\ \E id \in DeepIds, a \in DeepEditArgs : Edit(id, a)
DeepMark    == clock <= MaxStepsDeep /\ \E id \in DeepIds : Mark(id, "completed")
DeepUndo    == clock <= MaxStepsDeep /\ Undo("y")
DeepRedo    == clock <= MaxStepsDeep /\ Redo("y")

NextDeep ==
  \/ DeepAdd
  \/ DeepEdit
  \/ DeepMark
  \/ DeepUndo
  \/ DeepRedo

SpecDeep == Init /\ [][NextDeep]_vars

\* The exploration of the queries: one query on a given store.  The stores
\* are the sequences of at most MaxFilterRecords different records of the
\* pool, numbered in order.
FilterPool ==
  << [source |-> "Work", text |-> "buy milk", priority |-> "high", status |-> "pending",
      added |-> MakeDay(2025, 8, 8), deadline |-> NULL,
      isDeleted |-> FALSE, deletedAt |-> NULL],
     [source |-> "work", text |-> "call bob", priority |-> "low", status |-> "completed",
      added |-> MakeDay(2025, 8, 7), deadline |-> MakeDay(2025, 8, 15),
      isDeleted |-> TRUE, deletedAt |-> MakeDay(2025, 8, 9)],
     [source |-> "home", text |-> "pay rent", priority |-> "normal", status |-> "completed",
      added |-> MakeDay(2025, 7, 31), deadline |-> MakeDay(2025, 8, 14),
      isDeleted |-> FALSE, deletedAt |-> NULL],
     [source |-> "home", text |-> "file taxes", priority |-> "high", status |-> "paused",
      added |-> MakeDay(2026, 8, 29), deadline |-> MakeDay(2025, 3, 2),
      isDeleted |-> FALSE, deletedAt |-> NULL],
     [source |-> "work", text |-> "write report", priority |-> "normal", status |-> "pending",
      added |-> MakeDay(2026, 8, 10), deadline |-> MakeDay(2025, 9, 10),
      isDeleted |-> FALSE, deletedAt |-> NULL],
     [source |-> "Home", text |-> "fix door", priority |-> "high", status |-> "completed",
      added |-> MakeDay(2025, 9, 8), deadline |-> MakeDay(2025, 8, 31),
      isDeleted |-> TRUE, deletedAt |-> MakeDay(2025, 9, 9)] >>

\* The record a pool entry becomes when add gave it the id
Numbered(r, id) ==
  [id |-> id, source |-> r.source, text |-> r.text, added |-> r.added,
   priority |-> r.priority, deadline |-> r.deadline, status |-> r.status,
   isDeleted |-> r.isDeleted, deletedAt |-> r.deletedAt]

FilterStores ==
  { [i \in 1 .. Len(picks) |-> Numbered(FilterPool[picks[i]], i)] :
      picks \in { q \in UNION { [1 .. n -> 1 .. Len(FilterPool)] : n \in 0 .. MaxFilterRecords } :
                    \A i, j \in 1 .. Len(q) : i # j => q[i] # q[j] } }

OtherArgs ==
  { [priority |-> NoArg,  source |-> NoArg,  status |-> NoArg,       deadline |-> FALSE, all |-> FALSE],
    [priority |-> NoArg,  source |-> NoArg,  status |-> NoArg,       deadline |-> FALSE, all |-> TRUE],
    [priority |-> "high", source |-> NoArg,  status |-> NoArg,       deadline |-> FALSE, all |-> FALSE],
    [priority |-> NoArg,  source |-> "WORK", status |-> NoArg,       deadline |-> FALSE, all |-> FALSE],
    [priority |-> NoArg,  source |-> NoArg,  status |-> "completed", deadline |-> FALSE, all |-> FALSE],
    [priority |-> NoArg,  source |-> NoArg,  status |-> "completed", deadline |-> FALSE, all |-> TRUE],
    [priority |-> NoArg,  source |-> NoArg,  status |-> NoArg,       deadline |-> TRUE,  all |-> FALSE],
    [priority |-> "high", source |-> "home", status |-> NoArg,       deadline |-> TRUE,  all |-> TRUE] }
DateArgs ==
  { NoText, <<"2", "0", "2", "5", "-", "0", "8", "-", "0", "8">>, <<"2", "0", "2", "5", "-", "0", "2", "-", "3", "0">>, <<"2", "0", "2", "5", "-", "1", "3", "-", "0", "1">>, <<"8", "/", "8", "/", "2", "0", "2", "5">> }
DayArgs == { NoArg, "FRIDAY" }
MonthArgs == { NoText, <<"A", "u", "g">> }
YearArgs == { Undefined, 2025 }
WeekArgs == { Undefined, 2, 5, 6 }

\* Texts given as --month
MonthInputs ==
  { <<"1">>,
    <<"7">>,
    <<"1", "2">>,
    <<"0">>,
    <<"1", "3">>,
    <<"5", "a", "b", "c">>,
    <<"1", "2", "t", "h">>,
    <<"0", "8">>,
    <<"A", "u", "g">>,
    <<"A", "u", "g", "u", "s", "t">>,
    <<"A", "U", "G", "U", "S", "T">>,
    <<"a", "u", "g">>,
    <<"s", "e", "p", "t">>,
    <<"A", "u", "g", "u">>,
    <<" ", "a", "u", "g", " ">>,
    <<"c", "o", "n", "s", "t", "r", "u", "c", "t", "o", "r">>,
    <<"a", "b", "c">>,
    <<"-", "3">> }

ShowArgs ==
  { [priority |-> o.priority, source |-> o.source, status |-> o.status,
     deadline |-> o.deadline, all |-> o.all,
     date |-> d, day |-> dy, month |-> m, year |-> y, week |-> w] :
      o \in OtherArgs, d \in DateArgs, dy \in DayArgs, m \in MonthArgs,
      y \in YearArgs, w \in WeekArgs }

InitFilter ==
  /\ store \in FilterStores
  /\ undoStack = EmptyFile
  /\ redoStack = EmptyFile
  /\ clock = MakeDay(2026, 9, 1)
  /\ last = NoCommand
  /\ prev = NoCommand
  /\ prev2 = NoCommand
  /\ pre = [store |-> << >>, undo |-> << >>, redo |-> << >>]
  /\ pre2 = [store |-> << >>, undo |-> << >>, redo |-> << >>]
  /\ pre3 = [store |-> << >>, undo |-> << >>, redo |-> << >>]
  /\ assigned = << >>
  /\ used = {}
  /\ run = << >>
  /\ query = NoQuery
  /\ shown = << >>
  /\ lifo = NoRun

CmdShow == last = NoCommand /\ \E argv \in ShowArgs : Show(argv)

\* A query by month alone
CmdShowMonth ==
  last = NoCommand /\ \E m \in MonthInputs : Show([NoQuery EXCEPT !.month = m])

NextFilter ==
  \/ CmdShow
  \/ CmdShowMonth

SpecFilter == InitFilter /\ [][NextFilter]_vars

\* The exploration from an inst.json that cannot be parsed
CorruptQueries ==
  { NoQuery,
    [NoQuery EXCEPT !.all = TRUE],
    [NoQuery EXCEPT !.status = "completed"],
    [NoQuery EXCEPT !.month = <<"A", "u", "g">>] }

InitCorrupt ==
  /\ store = Garbage
  /\ undoStack = EmptyFile
  /\ redoStack = EmptyFile
  /\ clock = 1
  /\ last = NoCommand
  /\ prev = NoCommand
  /\ prev2 = NoCommand
  /\ pre = [store |-> Garbage, undo |-> << >>, redo |-> << >>]
  /\ pre2 = [store |-> Garbage, undo |-> << >>, redo |-> << >>]
  /\ pre3 = [store |-> Garbage, undo |-> << >>, redo |-> << >>]
  /\ assigned = << >>
  /\ used = {}
  /\ run = << >>
  /\ query = NoQuery
  /\ shown = << >>
  /\ lifo = NoRun

CorruptShow   == clock <= MaxStepsCorrupt /\ \E argv \in CorruptQueries : Show(argv)
CorruptAdd    ==
  /\ clock <= MaxStepsCorrupt
  /\ Len(LoadInstructions(store)) < MaxRecords
  /\ \E a \in AddArgs : Add(a)
CorruptEdit   == clock <= MaxStepsCorrupt /\ \E id \in Ids, a \in EditArgs : Edit(id, a)
CorruptMark   == clock <= MaxStepsCorrupt /\ \E id \in Ids, s \in MarkStatuses : Mark(id, s)
CorruptDelete == clock <= MaxStepsCorrupt /\ \E id \in Ids, ans \in Answers : Delete(id, ans)
CorruptReset  == clock <= MaxStepsCorrupt /\ \E ans \in Answers : Reset(ans)
CorruptUndo   == clock <= MaxStepsCorrupt /\ \E ans \in Answers : Undo(ans)
CorruptRedo   == clock <= MaxStepsCorrupt /\ \E ans \in Answers : Redo(ans)

NextCorrupt ==
  \/ CorruptShow
  \/ CorruptAdd
  \/ CorruptEdit
  \/ CorruptMark
  \/ CorruptDelete
  \/ CorruptReset
  \/ CorruptUndo
  \/ CorruptRedo

SpecCorrupt == InitCorrupt /\ [][NextCorrupt]_vars

\* The exploration with commands that are stopped part-way
HaltAdd     == clock <= MaxStepsHalt /\ Len(store) < MaxRecords /\ \E a \in AddArgs : Add(a)
HaltEdit    == clock <= MaxStepsHalt /\ \E id \in Ids, a \in EditArgs : Edit(id, a)
HaltMark    == clock <= MaxStepsHalt /\ \E id \in Ids, s \in MarkStatuses : Mark(id, s)
HaltDelete  == clock <= MaxStepsHalt /\ \E id \in Ids, ans \in Answers : Delete(id, ans)
HaltRecover == clock <= MaxStepsHalt /\ \E id \in Ids : Recover(id)
HaltReset   == clock <= MaxStepsHalt /\ \E ans \in Answers : Reset(ans)
HaltUndo    == clock <= MaxStepsHalt /\ \E ans \in Answers : Undo(ans)
HaltRedo    == clock <= MaxStepsHalt /\ \E ans \in Answers : Redo(ans)
ProcessEnds == last.name # "none" /\ \E k \in 0 .. 3 : Halt(k)

NextHalt ==
  \/ HaltAdd
  \/ HaltEdit
  \/ HaltMark
  \/ HaltDelete
  \/ HaltRecover
  \/ HaltReset
  \/ HaltUndo
  \/ HaltRedo
  \/ ProcessEnds

SpecHalt == Init /\ [][NextHalt]_vars

\* ------------------------------------------------------------------------
\* Properties
\* ------------------------------------------------------------------------
Top(stack) == stack[Len(stack)]
Front(stack) == SubSeq(stack, 1, Len(stack) - 1)
StrictlyIncreasing(q) == \A i, j \in 1 .. Len(q) : i < j => q[i] < q[j]
NoDuplicates(q) == \A i, j \in 1 .. Len(q) : i # j => q[i] # q[j]
Did(l, name) == l.name = name /\ l.outcome = "Applied"
Unchanged == store = pre.store /\ undoStack = pre.undo /\ redoStack = pre.redo

\* C1: each add assigns 1 on an empty store and otherwise one more than the
\* largest id of the store, soft-deleted records included; as long as only
\* add, delete and recover have been run, the ids handed out are strictly
\* increasing (so none is handed out twice).
C1_NextIdIsMaxPlusOne ==
  /\ Did(last, "add") =>
       /\ Len(store) = Len(pre.store) + 1
       /\ store[Len(store)].id = last.retId
       /\ IF pre.store = << >>
          THEN last.retId = 1
          ELSE /\ \A i \in 1 .. Len(pre.store) : pre.store[i].id < last.retId
               /\ \E i \in 1 .. Len(pre.store) : pre.store[i].id = last.retId - 1
  /\ used \subseteq {"add", "delete", "recover"} => StrictlyIncreasing(assigned)

C1_Witness ==
  /\ used \subseteq {"add", "delete", "recover"}
  /\ Did(last, "add")
  /\ Len(assigned) >= 2
  /\ \E i \in 1 .. Len(pre.store) :
       pre.store[i].isDeleted /\ pre.store[i].id = last.retId - 1

\* C2 as stated: over any sequence of commands, no id is handed out by two
\* adds.
C2_IdNeverReused == NoDuplicates(assigned)

\* C2 amended: the id an add hands out is never the id of a record in the
\* store (deleted or not), and as long as no reset and no undo has been run
\* no id is handed out by two adds.
C2_IdNotReusedWithoutResetOrUndo ==
  /\ Did(last, "add") => last.retId \notin IdsOf(pre.store)
  /\ used \cap {"reset", "undo"} = {} => NoDuplicates(assigned)

C2_Witness ==
  /\ used \cap {"reset", "undo"} = {}
  /\ {"mark", "delete"} \subseteq used
  /\ Did(last, "add")
  /\ Len(assigned) >= 2
  /\ \E i \in 1 .. Len(pre.store) : pre.store[i].isDeleted

\* C3 as stated: a mutating command, its undo and then a redo leave the
\* store as it was immediately before the mutating command.
C3_UndoRedoRestoresPreMutation ==
  (Applied(prev2) /\ Did(prev, "undo") /\ Did(last, "redo")) => store = pre3.store

\* C3 amended: a mutating command, its undo and then a redo leave the store
\* as it was immediately after the mutating command (immediately before the
\* undo).
C3_UndoRedoRestoresPostMutation ==
  (Applied(prev2) /\ Did(prev, "undo") /\ Did(last, "redo")) => store = pre2.store

C3_Witness ==
  /\ Applied(prev2) /\ Did(prev, "undo") /\ Did(last, "redo")
  /\ pre2.store # pre3.store
  /\ pre.store = pre3.store

C5_MutationClearsRedo ==
  /\ Applied(last) => redoStack = << >>
  /\ (Applied(prev) /\ last.name = "redo") =>
       /\ last.outcome = "Empty"
       /\ store = pre.store
       /\ undoStack = pre.undo

C5_Witness ==
  /\ Did(prev2, "undo")
  /\ Applied(prev)
  /\ pre2.redo # << >>
  /\ last.name = "redo"
  /\ last.outcome = "Empty"

\* C6: a confirmed undo directly after a successful mutating command makes
\* the store exactly what it was before that command.
C6_UndoRestoresPreCommandStore ==
  (Applied(prev) /\ Did(last, "undo")) => store = pre2.store

C6_Witness ==
  /\ Did(prev, "delete")
  /\ Did(last, "undo")
  /\ \E i \in 1 .. Len(store) :
       /\ store[i].id = prev.id
       /\ pre.store[i].isDeleted /\ pre.store[i].deletedAt # NULL
       /\ ~store[i].isDeleted /\ store[i].deletedAt = NULL

\* C7: a confirmed undo (redo) on a non-empty undo (redo) stack removes
\* exactly the top entry of that stack, pushes on the other stack one entry
\* holding the store as it was before the command under the popped entry's
\* command name, and returns that name.
C7_PopMovesTopEntry ==
  /\ Did(last, "undo") =>
       /\ Len(pre.undo) > 0
       /\ undoStack = Front(pre.undo)
       /\ redoStack = Append(pre.redo, [command |-> Top(pre.undo).command, data |-> pre.store])
       /\ last.retCmd = Top(pre.undo).command
  /\ Did(last, "redo") =>
       /\ Len(pre.redo) > 0
       /\ redoStack = Front(pre.redo)
       /\ undoStack = Append(pre.undo, [command |-> Top(pre.redo).command, data |-> pre.store])
       /\ last.retCmd = Top(pre.redo).command

C7_Witness ==
  /\ Did(prev, "undo")
  /\ Did(last, "redo")
  /\ Len(pre.redo) >= 1
  /\ Len(pre.undo) >= 1

\* C8: undo on an empty undo stack and redo on an empty redo stack report
\* Empty without asking for confirmation and leave the store and both stacks
\* as they were.
C8_EmptyStackIsNoOp ==
  /\ (last.name = "undo" /\ pre.undo = << >>) =>
       last.outcome = "Empty" /\ ~last.prompted /\ Unchanged
  /\ (last.name = "redo" /\ pre.redo = << >>) =>
       last.outcome = "Empty" /\ ~last.prompted /\ Unchanged

C8_Witness ==
  /\ prev2.name = "redo" /\ prev2.outcome = "Empty" /\ pre3.undo # << >>
  /\ last.name = "undo" /\ last.outcome = "Empty" /\ pre.redo # << >>

\* C9: the undo stack and the redo stack never hold more than 10 entries.
C9_StacksBounded ==
  /\ Len(undoStack) <= MAX_UNDO_REDO_STATES
  /\ Len(redoStack) <= MAX_UNDO_REDO_STATES

C9_Witness ==
  /\ Len(undoStack) = MAX_UNDO_REDO_STATES
  /\ Len(pre.undo) = MAX_UNDO_REDO_STATES
  /\ Applied(last)

\* C10: every record of the store has deletedAt set exactly when isDeleted
\* is true.
C10_DeletedAtIffIsDeleted ==
  \A i \in 1 .. Len(store) : (store[i].deletedAt # NULL) <=> store[i].isDeleted

C10_Witness ==
  /\ {"delete", "recover", "undo"} \subseteq used
  /\ \E i \in 1 .. Len(store) : store[i].isDeleted /\ store[i].deletedAt # NULL

\* The records of a store that carry the given id
WithId(instructions, id) ==
  { i \in 1 .. Len(instructions) : instructions[i].id = id }

\* C11: no two records of the store have the same id.
C11_IdsUnique ==
  \A i, j \in 1 .. Len(store) : i # j => store[i].id # store[j].id

C11_Witness ==
  /\ Len(store) >= 2
  /\ store[1].isDeleted
  /\ Did(last, "add")

\* C12: edit and mark aimed at a soft-deleted record report that it is
\* deleted and leave the store and both stacks as they were.
C12_DeletedRecordNotEdited ==
  (/\ last.name \in {"edit", "mark"}
   /\ \E i \in WithId(pre.store, last.id) : pre.store[i].isDeleted)
  => (last.outcome = "Deleted" /\ Unchanged)

C12_Witness ==
  /\ prev.name = "edit" /\ prev.outcome = "Deleted"
  /\ last.name = "mark" /\ last.outcome = "Deleted"
  /\ \E i \in WithId(pre.store, last.id) :
       pre.store[i].isDeleted /\ pre.store[i].status = "pending"

\* C13: edit, mark, delete and recover on an id that is not in the store,
\* delete on an already deleted record and recover on a record that is not
\* deleted report the failure and leave the store and both stacks as they
\* were.
C13_FailedLookupChangesNothing ==
  /\ (/\ last.name \in {"edit", "mark", "delete", "recover"}
      /\ WithId(pre.store, last.id) = {})
     => (/\ last.outcome \in {"NotFound", "NotFoundOrDeleted", "NotFoundOrNotDeleted"}
         /\ Unchanged)
  /\ (/\ last.name = "delete"
      /\ \E i \in WithId(pre.store, last.id) : pre.store[i].isDeleted)
     => (last.outcome = "NotFoundOrDeleted" /\ Unchanged)
  /\ (/\ last.name = "recover"
      /\ \E i \in WithId(pre.store, last.id) : ~pre.store[i].isDeleted)
     => (last.outcome = "NotFoundOrNotDeleted" /\ Unchanged)

C13_Witness ==
  /\ prev.name = "delete" /\ prev.outcome = "NotFoundOrDeleted"
  /\ \E i \in WithId(pre2.store, prev.id) : pre2.store[i].isDeleted
  /\ last.name = "recover" /\ last.outcome = "NotFoundOrNotDeleted"
  /\ WithId(pre.store, last.id) = {}

\* C14: a mark with the record's current status, and an edit that leaves
\* every field of the record as it was (fields equal to the current values,
\* or no field given), change nothing: no undo entry is pushed and the redo
\* stack is not cleared.
C14_NoOpRecordsNoHistory ==
  /\ (/\ last.name = "mark"
      /\ \E i \in WithId(pre.store, last.id) :
           ~pre.store[i].isDeleted /\ store[i].status = pre.store[i].status)
     => (last.outcome = "NoOp" /\ Unchanged)
  /\ (last.name = "edit" /\ store = pre.store)
     => (undoStack = pre.undo /\ redoStack = pre.redo)

\* C15: an add or edit whose deadline phrase cannot be parsed leaves the
\* store and both stacks exactly as they were.
C15_InvalidDeadlineWritesNothing ==
  (last.name \in {"add", "edit"} /\ last.outcome = "InvalidDeadline") => Unchanged

\* Helpers of the properties of the queries
Asked == last.name = "show"
Accepted == Asked /\ last.outcome \in {"Shown", "NoMatches"}
Rejected ==
  Asked /\ last.outcome \in {"InvalidDate", "DateWithOtherTimeFilters", "WeekWithoutMonth"}
IdSeq(records) == [k \in 1 .. Len(records) |-> records[k].id]
Live(records) == SelectSeq(records, LAMBDA r : ~r.isDeleted)
AllRecovered(records) ==
  [i \in 1 .. Len(records) |-> [records[i] EXCEPT !.isDeleted = FALSE]]
OnlyTimeOptions(q) ==
  /\ q.priority = NoArg /\ q.source = NoArg /\ q.status = NoArg
  /\ ~q.deadline /\ ~q.all

\* C16: a query without any criterion selects exactly the records that are
\* not deleted, each once and in the order of the store.
C16_NoCriteriaSelectsLive ==
  (Asked /\ query = NoQuery) => shown = Live(store)

C16_Witness ==
  /\ Asked /\ query = NoQuery
  /\ Len(store) = 2
  /\ store[1].isDeleted
  /\ shown = <<store[2]>>

\* C17: without --all no selected record is deleted; with --all a record is
\* selected exactly when it would be selected were no record deleted, that
\* is when it satisfies all the other criteria.
C17_AllOptionDecidesDeleted ==
  /\ (Asked /\ ~query.all) => \A k \in 1 .. Len(shown) : ~shown[k].isDeleted
  /\ (Accepted /\ query.all) =>
       IdSeq(shown) =
         IdSeq(FilterInstructions(AllRecovered(store), Coerced([query EXCEPT !.all = FALSE])))

C17_Witness ==
  /\ Accepted /\ query.all /\ query.status = "completed"
  /\ Len(store) = 2
  /\ Len(shown) = 1
  /\ shown[1].isDeleted
  /\ Len(FilterInstructions(store, Coerced([query EXCEPT !.all = FALSE]))) = 0

\* C18: a query leaves the store as it was, and what it selects is a
\* subsequence of the store: every selected record is a record of the store
\* and the selected records come in the order of the store.
C18_ResultIsSubsequence ==
  Asked =>
    /\ store = pre.store
    /\ \A k \in 1 .. Len(shown) : \E i \in 1 .. Len(store) : store[i] = shown[k]
    /\ \A k, l \in 1 .. Len(shown) :
         k < l => \E i, j \in 1 .. Len(store) :
                    i < j /\ store[i] = shown[k] /\ store[j] = shown[l]

C18_Witness ==
  /\ Accepted
  /\ TruthyText(query.month)
  /\ Len(shown) = 2
  /\ \E k \in 1 .. 2 : shown[k].deadline # NULL /\ DateFields(shown[k].added).month # 8

\* C19: with week w and month m as the only criteria a query selects exactly
\* the records, not deleted, whose added or deadline lies in month m on a day
\* of the month from 7(w-1)+1 to 7w.
InWeekOfMonth(t, m, w) ==
  /\ t # NULL
  /\ DateFields(t).month = m
  /\ DateFields(t).date >= 7 * (w - 1) + 1
  /\ DateFields(t).date <= 7 * w

C19_WeekOfMonthRange ==
  (/\ Accepted /\ OnlyTimeOptions(query)
   /\ query.date = NoText /\ query.day = NoArg /\ query.year = Undefined
   /\ query.week \in 1 .. 5 /\ query.month # NoText)
  => shown = SelectSeq(store, LAMBDA r :
                /\ ~r.isDeleted
                /\ \/ InWeekOfMonth(r.added, MonthCoercion(query.month), query.week)
                   \/ InWeekOfMonth(r.deadline, MonthCoercion(query.month), query.week))

C19_Witness ==
  /\ Accepted /\ OnlyTimeOptions(query)
  /\ query.date = NoText /\ query.day = NoArg /\ query.year = Undefined
  /\ query.week = 2 /\ MonthCoercion(query.month) = 8
  /\ Len(shown) = 2
  /\ DateFields(shown[1].added).date = 8
  /\ shown[2].deadline # NULL /\ DateFields(shown[2].deadline).date = 14

\* C20: a query is rejected, before anything is filtered and without any
\* change of the files, when --date comes with --day, --month, --week or
\* --year, when --week comes without --month, and when --date is not a day
\* of the calendar written YYYY-MM-DD; each case has its own message; every
\* other combination is accepted.
IsCalendarDay(t) ==
  /\ TestDatePattern(t)
  /\ NumberOf(SubSeq(t, 6, 7)) \in 1 .. 12
  /\ NumberOf(SubSeq(t, 9, 10)) >= 1
  /\ NumberOf(SubSeq(t, 9, 10)) <=
       DaysInMonth(NumberOf(SubSeq(t, 1, 4)), NumberOf(SubSeq(t, 6, 7)))

C20_CriteriaValidation ==
  LET o == Coerced(query)
      dateGiven == TruthyText(o.date)
      dateBad == dateGiven /\ ~IsCalendarDay(o.date)
      combined == dateGiven /\ (\/ TruthyStr(o.day) \/ TruthyNum(o.month)
                                \/ TruthyNum(o.week) \/ TruthyNum(o.year))
      weekAlone == TruthyNum(o.week) /\ ~TruthyNum(o.month)
  IN (/\ Asked
      /\ ~WeekCoercionThrows(query.week)
      /\ ~MonthCoercionThrows(query.month))
     => /\ dateBad => (Rejected /\ (~combined => last.outcome = "InvalidDate"))
        /\ combined => (Rejected /\ (~dateBad => last.outcome = "DateWithOtherTimeFilters"))
        /\ weekAlone => (Rejected /\ (~dateGiven => last.outcome = "WeekWithoutMonth"))
        /\ (~dateBad /\ ~combined /\ ~weekAlone) => Accepted
        /\ Rejected => (Unchanged /\ shown = << >>)

\* C21: the text of --month resolves to n when it is one of the numerals
\* "1" .. "12", to the number of the month when it is, in any letter case, a
\* full month name or its three-letter abbreviation, and is refused with
\* the message of an invalid month in every other case.
MonthNumerals ==
  <<<<"1">>, <<"2">>, <<"3">>, <<"4">>, <<"5">>, <<"6">>, <<"7">>, <<"8">>, <<"9">>, <<"1", "0">>, <<"1", "1">>, <<"1", "2">>>>

MonthOf(m) ==
  IF \E n \in 1 .. 12 : MonthNumerals[n] = m
  THEN CHOOSE n \in 1 .. 12 : MonthNumerals[n] = m
  ELSE IF \E k \in 1 .. 12 : MonthNames[k] = LowerText(m)
  THEN CHOOSE k \in 1 .. 12 : MonthNames[k] = LowerText(m)
  ELSE IF \E k \in 1 .. 12 : MonthAbbreviations[k] = LowerText(m)
  THEN CHOOSE k \in 1 .. 12 : MonthAbbreviations[k] = LowerText(m)
  ELSE NULL

C21_MonthResolution ==
  (Asked /\ query.month # NoText /\ ~WeekCoercionThrows(query.week))
  => IF MonthOf(query.month) = NULL
     THEN last.outcome = "InvalidMonth"
     ELSE /\ last.outcome # "InvalidMonth"
          /\ Coerced(query).month = MonthOf(query.month)

\* C22: while inst.json cannot be parsed a command takes the store to be
\* empty and runs on: a query finds no matches and writes nothing, and add
\* pushes the empty store as its undo snapshot and creates the record with
\* id 1.
C22_UnparsableStoreIsEmpty ==
  /\ (last.name = "show" /\ pre.store = Garbage)
       => (last.outcome = "NoMatches" /\ shown = << >> /\ Unchanged)
  /\ (last.name = "add" /\ pre.store = Garbage)
       => /\ last.outcome \in {"Applied", "InvalidDeadline"}
          /\ Top(undoStack) = [command |-> "add", data |-> << >>]
          /\ last.outcome = "Applied"
               => (Len(store) = 1 /\ store[1].id = 1 /\ last.retId = 1)

C22_Witness ==
  /\ prev.name = "show" /\ prev.outcome = "NoMatches" /\ pre2.store = Garbage
  /\ last.name = "add" /\ last.outcome = "Applied" /\ pre.store = Garbage
  /\ store[1].id = 1
  /\ undoStack = << [command |-> "add", data |-> << >>] >>

\* Helpers of the properties of the steps
Done(l, step) == \E i \in 1 .. Len(l.steps) : l.steps[i] = step
Snapshot(name, files) == [command |-> name, data |-> LoadInstructions(files.store)]

\* C23: the entry a mutating command pushes on the Undo stack carries the
\* name of the command and the store as it was on disk before the command,
\* and the store on disk differs from that only once the entry is pushed;
\* so also for edit.
C23_PushBeforeSave ==
  last.name \in MutatingCommands =>
    /\ Done(last, "pushToUndoStack") => Top(undoStack) = Snapshot(last.name, pre)
    /\ store # pre.store =>
         (Done(last, "pushToUndoStack") /\ Top(undoStack) = Snapshot(last.name, pre))

C23_Witness ==
  /\ prev.name = "edit" /\ prev.outcome = "Applied"
  /\ pre.store # pre2.store
  /\ Top(pre.undo) = Snapshot("edit", pre2)
  /\ last.name = "mark" /\ last.outcome = "Stopped"
  /\ last.steps = <<"pushToUndoStack">>
  /\ store = pre.store
  /\ Top(undoStack) = Snapshot("mark", pre)

\* C24: delete, reset, undo and redo write none of the three files before
\* the prompt is answered; when the answer is not yes, or the process ends
\* while the prompt waits, the three files are as before the command.
C24_NothingWrittenBeforeAnswer ==
  last.name \in {"delete", "reset", "undo", "redo"} =>
    /\ ~Done(last, "promptConfirmation") => Unchanged
    /\ last.outcome = "Cancelled" => Unchanged

C24_Witness ==
  /\ prev.name = "delete" /\ prev.outcome = "Cancelled" /\ prev.prompted
  /\ last.name = "undo" /\ last.outcome = "Stopped" /\ last.steps = << >>
  /\ Len(pre.undo) >= 1
  /\ Unchanged

\* C25: when the process ended after a mutating command pushed its entry on
\* the Undo stack and before it saved the store, the next undo pops an entry
\* whose snapshot is the store on disk, and leaves the store as it is.
C25_UndoAfterStoppedCommand ==
  (/\ prev.name \in MutatingCommands /\ prev.outcome = "Stopped"
   /\ Done(prev, "pushToUndoStack") /\ ~Done(prev, "saveInstructions")
   /\ last.name = "undo" /\ last.outcome = "Applied")
  => /\ Top(pre.undo).data = pre.store
     /\ store = pre.store
     /\ last.retCmd = prev.name

C25_Witness ==
  /\ prev.name = "mark" /\ prev.outcome = "Stopped"
  /\ Done(prev, "pushToUndoStack") /\ ~Done(prev, "saveInstructions")
  /\ last.name = "undo" /\ last.outcome = "Applied"
  /\ Len(pre.undo) = 2
  /\ Len(store) >= 1
  /\ store = pre.store

\* C26: when criteria of time are given, a record is selected exactly when
\* it passes the other criteria and one of its two timestamps, added or
\* deadline, satisfies every given criterion of time by itself; an absent
\* deadline satisfies none.
Satisfies(t, o) ==
  /\ t # NULL
  /\ TruthyText(o.date) => t = ParseIsoDate(o.date)
  /\ TruthyStr(o.day) => ToLowerCase(GetDayName(t)) = ToLowerCase(o.day)
  /\ TruthyNum(o.month) => DateFields(t).month = o.month
  /\ TruthyNum(o.year) => DateFields(t).year = o.year
  /\ TruthyNum(o.week) => (DateFields(t).date + 6) \div 7 = o.week

WithoutTime(o) ==
  [o EXCEPT !.date = NoText, !.day = NoArg, !.month = Undefined,
            !.year = Undefined, !.week = Undefined]

C26_OneTimestampSatisfiesAll ==
  (/\ Accepted
   /\ HasDateFilter(Coerced(query))
   /\ query.date = NoText \/ IsCalendarDay(query.date))
  => shown = SelectSeq(FilterInstructions(store, WithoutTime(Coerced(query))),
                       LAMBDA r : \/ Satisfies(r.added, Coerced(query))
                                  \/ Satisfies(r.deadline, Coerced(query)))

C26_Witness ==
  /\ Accepted /\ OnlyTimeOptions(query)
  /\ TruthyText(query.month) /\ query.year = 2025
  /\ query.day = NoArg /\ query.week = Undefined
  /\ Len(store) = 2
  /\ Len(shown) = 1
  /\ shown[1].deadline = NULL
  /\ \E i \in 1 .. 2 :
       /\ ~store[i].isDeleted
       /\ DateFields(store[i].added).month = 8
       /\ DateFields(store[i].added).year # 2025
       /\ store[i].deadline # NULL
       /\ DateFields(store[i].deadline).year = 2025
       /\ DateFields(store[i].deadline).month # 8

\* C27: edit, mark, delete and recover keep the number of records, their
\* order, and the id and the added timestamp of every record; only the
\* record with the id given to the command may differ in its other fields.
C27_RecordsKeepPlaceIdAndAdded ==
  last.name \in {"edit", "mark", "delete", "recover"} =>
    /\ Len(store) = Len(pre.store)
    /\ \A i \in 1 .. Len(pre.store) :
         /\ i <= Len(store)
         /\ store[i].id = pre.store[i].id
         /\ store[i].added = pre.store[i].added
         /\ store[i] # pre.store[i] => store[i].id = last.id

C27_Witness ==
  /\ last.name = "edit" /\ last.outcome = "Applied" /\ last.id = 1
  /\ Len(store) = 2
  /\ store[1] # pre.store[1]
  /\ store[1].id = 1 /\ store[1].added = pre.store[1].added
  /\ store[2] = pre.store[2]

\* C28: after commands that all ran to their end the Undo stack and the Redo
\* stack hold at most 10 entries together; so the entry undo pushes on the
\* Redo stack and the entry redo pushes on the Undo stack push none out.
C28_StacksTogetherBounded ==
  /\ Len(undoStack) + Len(redoStack) <= MAX_UNDO_REDO_STATES
  /\ Did(last, "undo") =>
       (/\ redoStack = Append(pre.redo, [command |-> last.retCmd, data |-> pre.store])
        /\ Len(undoStack) = Len(pre.undo) - 1)
  /\ Did(last, "redo") =>
       (/\ undoStack = Append(pre.undo, [command |-> last.retCmd, data |-> pre.store])
        /\ Len(redoStack) = Len(pre.redo) - 1)

C28_Witness ==
  /\ Did(last, "undo")
  /\ Len(pre.undo) = MAX_UNDO_REDO_STATES
  /\ Len(undoStack) + Len(redoStack) = MAX_UNDO_REDO_STATES
  /\ Len(redoStack) >= 1

\* C29: a confirmed undo followed by a confirmed redo leaves the store, the
\* Undo stack and the Redo stack as they were before the undo, and a
\* confirmed redo followed by a confirmed undo leaves them as they were
\* before the redo.
C29_UndoRedoAreInverse ==
  /\ (Did(prev, "undo") /\ Did(last, "redo")) => Files = pre2
  /\ (Did(prev, "redo") /\ Did(last, "undo")) => Files = pre2

C29_Witness ==
  /\ Did(prev2, "undo") /\ Did(prev, "redo") /\ Did(last, "undo")
  /\ Len(pre3.undo) >= 2
  /\ pre = pre3
  /\ Files = pre2
  /\ store # pre.store

\* C30: history is taken back last in, first out.  After successful
\* mutating commands c1 .. ck (k from 1 to MaxRun) with no undo among them, the
\* confirmed undos that follow one after the other return ck, ..., c1 and
\* each leaves the store as it was before the command it returns; the
\* redos that follow them return the commands in the order they were run
\* and each leaves the store as it was after the command it returns.
C30_LastInFirstOut ==
  /\ (Did(last, "undo") /\ lifo.phase = "undoing") =>
       LET c == lifo.trail[Len(lifo.trail) - lifo.back + 1]
       IN last.retCmd = c.command /\ store = c.before
  /\ (Did(last, "redo") /\ lifo.phase = "redoing") =>
       LET c == lifo.trail[Len(lifo.trail) - lifo.back]
       IN last.retCmd = c.command /\ store = c.after

====
